---- MODULE Spec2Model ----
(***************************************************************************)
(* QuantumBlocks: QFT based adders built from qiskit gates (src/main.py).  *)
(*                                                                         *)
(* The builders are pure functions that emit lists of gate operations.     *)
(* They are modelled as operators that return the emitted list, and the    *)
(* simulator as actions that run an assembled circuit on a register state. *)
(*                                                                         *)
(* Register state.  Every reachable state of the circuits built here is a  *)
(* product of single qubit states, possibly branched on the computational  *)
(* value of qubits that are only used as controls.  A qubit is             *)
(*   "bit"    a computational basis state |v>, v \in {0,1};                *)
(*   "phase"  (|0> + e^(2 pi i v / Den) |1>) / sqrt 2, v \in 0..Den-1;     *)
(*   "ctl"    a qubit in superposition whose computational value v has     *)
(*            been fixed for this branch (principle of deferred            *)
(*            measurement: exact while only diagonal gates touch it);      *)
(*   "mixed"  anything else: every measurement outcome is possible.        *)
(* Angles are 2 pi / 2^e, counted in units of 2 pi / Den.                  *)
(***************************************************************************)
EXTENDS Integers, Sequences, FiniteSets, TLC

MaxT == 3
MaxS == 2
MaxGates == 2
MaxComposeT == 2

\* main's register widths
sol_bits == 3
sum_bits == 2

RECURSIVE Pow2(_)
Pow2(n) == IF n <= 0 THEN 1 ELSE 2 * Pow2(n - 1)

PhaseBits == MaxT + 2
Den == Pow2(PhaseBits)
HalfTurn == Den \div 2

\* constants offered to the classical builders: negative ones, 0, and values
\* up to 2^MaxT, which is >= 2^T for every T
MinK == 0 - 2
MaxK == Pow2(MaxT)
\* register lengths offered to the phase builders called on their own
ArgLens == (0 - 1) .. MaxT

Min(a, b) == IF a < b THEN a ELSE b

RECURSIVE Concat(_)
Concat(ss) == IF ss = <<>> THEN <<>> ELSE Head(ss) \o Concat(Tail(ss))

Reverse(s) == [p \in 1..Len(s) |-> s[Len(s) + 1 - p]]

(***************************************************************************)
(* Python built-ins used by the builders                                   *)
(***************************************************************************)
\* bin(k) for k >= 1 without the "0b" prefix, most significant digit first
RECURSIVE Digits(_)
Digits(k) == IF k <= 1 THEN <<IF k = 1 THEN "1" ELSE "0">>
             ELSE Digits(k \div 2) \o <<IF k % 2 = 1 THEN "1" ELSE "0">>

\* bin(k): "0b101", "-0b101"
bin(k) == IF k < 0 THEN <<"-", "0", "b">> \o Digits(0 - k)
          ELSE <<"0", "b">> \o Digits(k)

\* str[-1:1:-1]: the characters at indices len-1 down to 2
SliceBack(str) == IF Len(str) <= 2 THEN <<>>
                  ELSE Reverse(SubSeq(str, 3, Len(str)))

\* int(bit) succeeds on a digit only
IsDigit(ch) == ch \in {"0", "1"}
int(ch) == IF ch = "1" THEN 1 ELSE 0

(***************************************************************************)
(* Registers, gates and circuits                                           *)
(***************************************************************************)
\* QuantumRegister(n): n qubits in index order
QuantumRegister(name, n) == [p \in 1..n |-> [reg |-> name, i |-> p - 1]]

\* qubit_list(*registers)
qubit_list(registers) == Concat(registers)

\* one operation on references c (control) and t (target); c = t when the
\* operation has no control.  Its angle is sgn * 2 pi / 2^e.
OpH(t) == [g |-> "h", e |-> 0, sgn |-> 1, c |-> t, t |-> t]
OpP(e, t) == [g |-> "p", e |-> e, sgn |-> 1, c |-> t, t |-> t]
OpCP(e, c, t) == [g |-> "cp", e |-> e, sgn |-> 1, c |-> c, t |-> t]

Raise(kind, built) ==
    [raised |-> kind, name |-> "", n |-> 0, ops |-> <<>>, log |-> <<>>, built |-> built]

\* position (0-based) of qubit r in the list qs
PosOf(qs, r) == (CHOOSE p \in 1..Len(qs) : qs[p] = r) - 1

\* QuantumCircuit.to_gate(): the operations over the circuit's qubit positions
to_gate(name, qubits, data, log, built) ==
    [raised |-> "none", name |-> name, n |-> Len(qubits),
     ops |-> [p \in 1..Len(data) |->
                [data[p] EXCEPT !.c = PosOf(qubits, data[p].c),
                                !.t = PosOf(qubits, data[p].t)]],
     log |-> log, built |-> built]

\* Gate.inverse(): the operations reversed, each one inverted
inverse(gate) ==
    [gate EXCEPT !.name = "i" \o gate.name,
                 !.ops = [p \in 1..Len(gate.ops) |->
                            [Reverse(gate.ops)[p] EXCEPT !.sgn = 0 - @]]]

\* the operations qc.append(gate, qargs) adds: position p of the gate acts on
\* qargs[p]
Mapped(gate, qargs) ==
    [p \in 1..Len(gate.ops) |->
        [gate.ops[p] EXCEPT !.c = qargs[gate.ops[p].c + 1],
                            !.t = qargs[gate.ops[p].t + 1]]]

\* what an append records: the gate, the width it was built for, its qubits
Applied(gate, qargs) == [name |-> gate.name, width |-> gate.n, qargs |-> qargs]

(***************************************************************************)
(* QFT(num_qubits, do_swaps=False) of the circuit library: H on the top    *)
(* qubit, then controlled rotations by pi / 2^(j-k) onto the lower qubits. *)
(***************************************************************************)
QFTRow(j) == <<OpH(j)>> \o [p \in 1..j |-> OpCP(1 + p, j, j - p)]

QFTGate(num_qubits) ==
    [raised |-> "none", name |-> "qft", n |-> num_qubits,
     ops |-> Concat([p \in 1..num_qubits |-> QFTRow(num_qubits - p)]),
     log |-> <<>>, built |-> 1]


(***************************************************************************)
(* The four builders                                                       *)
(***************************************************************************)
\* QuantumRegister(size) of the library refuses a negative size
RegisterOk(n) == n >= 0

\* qc.append(gate, qargs) of the library refuses a qubit list of another
\* length than the gate's
Fits(gate, qargs) == Len(qargs) = gate.n

\* mutant: range(min(i, summand_reg_length))
AdderPhaseRangeShort(i, summand_reg_length) ==
    [r \in 1..Min(i, summand_reg_length) |-> r - 1]

\* range(min(i+1, summand_reg_length))
AdderPhaseRange(i, summand_reg_length) ==
    [r \in 1..Min(i + 1, summand_reg_length) |-> r - 1]

\* mutant: the summand qubit as the target of the rotation
AdderPhaseRotationSwapped(i, j, target_reg, summand_reg) ==
    OpCP(1 + i - j, target_reg[i + 1], summand_reg[j + 1])

\* mutant: the angle 2 pi / 2^(i-j)
AdderPhaseRotationWrongAngle(i, j, target_reg, summand_reg) ==
    OpCP(i - j, summand_reg[j + 1], target_reg[i + 1])

\* qc.cp(2*np.pi/(2**(1+i-j)), summand_reg[j], target_reg[i])
AdderPhaseRotation(i, j, target_reg, summand_reg) ==
    OpCP(1 + i - j, summand_reg[j + 1], target_reg[i + 1])

AdderPhaseGate(target_reg_length, summand_reg_length) ==
    IF ~RegisterOk(target_reg_length) \/ ~RegisterOk(summand_reg_length)
    THEN Raise("CircuitError", 0)
    ELSE LET target_reg == QuantumRegister("target", target_reg_length)
             summand_reg == QuantumRegister("summand", summand_reg_length)
             row(i) == LET js == AdderPhaseRange(i, summand_reg_length)
                       IN [r \in 1..Len(js) |->
                             AdderPhaseRotation(i, js[r], target_reg, summand_reg)]
             data == Concat([p \in 1..target_reg_length |-> row(p - 1)])
         IN to_gate("add_phase", target_reg \o summand_reg, data, <<>>, 1)

\* mutant: bin(k)[-1:2:-1], which loses the highest digit
BitStringShort(k) ==
    IF Len(bin(k)) <= 3 THEN <<>> ELSE Reverse(SubSeq(bin(k), 4, Len(bin(k))))

\* bit_string = bin(k)[-1:1:-1]
BitString(k) == SliceBack(bin(k))

\* mutant: range(len(bits))
ClassicalPhaseRangeAll(i, bits) == [r \in 1..Len(bits) |-> r - 1]

\* range(min(i+1, len(bits)))
ClassicalPhaseRange(i, bits) == [r \in 1..Min(i + 1, Len(bits)) |-> r - 1]

\* mutant: the angle 2 pi / 2^(i-j)
ClassicalPhaseRotationWrongAngle(i, j, target_reg) == OpP(i - j, target_reg[i + 1])

\* qc.p(2*np.pi/(2**(1+i-j)), target_reg[i])
ClassicalPhaseRotation(i, j, target_reg) == OpP(1 + i - j, target_reg[i + 1])

ClassicalAdderPhaseGate(target_reg_length, k) ==
    LET bit_string == BitString(k)
    IN IF \E p \in 1..Len(bit_string) : ~IsDigit(bit_string[p])
       THEN Raise("ValueError", 0)
       ELSE IF ~RegisterOk(target_reg_length)
       THEN Raise("CircuitError", 0)
       ELSE LET bits == [p \in 1..Len(bit_string) |-> int(bit_string[p])]
                target_reg == QuantumRegister("target", target_reg_length)
                row(i) == LET js == SelectSeq(ClassicalPhaseRange(i, bits),
                                              LAMBDA j : bits[j + 1] = 1)
                          IN [r \in 1..Len(js) |->
                                ClassicalPhaseRotation(i, js[r], target_reg)]
                data == Concat([p \in 1..target_reg_length |-> row(p - 1)])
            IN to_gate("classical_add_phase", target_reg, data, <<>>, 1)

\* mutant: the phase adder applied to [summand..., target...]
AdderGateQargsSwapped(target_reg, summand_reg) ==
    <<target_reg, qubit_list(<<summand_reg, target_reg>>), target_reg>>

\* the qubit lists of AdderGate's three appends
AdderGateQargs(target_reg, summand_reg) ==
    <<target_reg, qubit_list(<<target_reg, summand_reg>>), target_reg>>

AdderGate(target_reg_length, summand_reg_length) ==
    IF ~RegisterOk(target_reg_length) \/ ~RegisterOk(summand_reg_length)
    THEN Raise("CircuitError", 0)
    ELSE LET target_reg == QuantumRegister("target", target_reg_length)
             summand_reg == QuantumRegister("summand", summand_reg_length)
             qft_n == QFTGate(target_reg_length)
             add_phase_gate == AdderPhaseGate(target_reg_length, summand_reg_length)
             qargs == AdderGateQargs(target_reg, summand_reg)
             gates == <<qft_n, add_phase_gate, inverse(qft_n)>>
         IN IF add_phase_gate.raised # "none"
            THEN Raise(add_phase_gate.raised, 1 + add_phase_gate.built)
            ELSE IF \E p \in 1..3 : ~Fits(gates[p], qargs[p])
            THEN Raise("CircuitError", 3)
            ELSE to_gate("adder", target_reg \o summand_reg,
                         Concat([p \in 1..3 |-> Mapped(gates[p], qargs[p])]),
                         [p \in 1..3 |-> Applied(gates[p], qargs[p])], 4)

\* the qubit lists of ClassicalAdderGate's three appends
ClassicalAdderGateQargs(target_reg) ==
    <<target_reg, qubit_list(<<target_reg>>), target_reg>>

ClassicalAdderGate(target_reg_length, k) ==
    IF ~RegisterOk(target_reg_length)
    THEN Raise("CircuitError", 0)
    ELSE LET target_reg == QuantumRegister("target", target_reg_length)
             qft_n == QFTGate(target_reg_length)
             add_phase_gate == ClassicalAdderPhaseGate(target_reg_length, k)
             qargs == ClassicalAdderGateQargs(target_reg)
             gates == <<qft_n, add_phase_gate, inverse(qft_n)>>
         IN IF add_phase_gate.raised # "none"
            THEN Raise(add_phase_gate.raised, 1 + add_phase_gate.built)
            ELSE IF \E p \in 1..3 : ~Fits(gates[p], qargs[p])
            THEN Raise("CircuitError", 3)
            ELSE to_gate("classical_adder", target_reg,
                         Concat([p \in 1..3 |-> Mapped(gates[p], qargs[p])]),
                         [p \in 1..3 |-> Applied(gates[p], qargs[p])], 4)

(***************************************************************************)
(* The simulator: one operation on a register state                        *)
(***************************************************************************)
\* the angle sgn * 2 pi / 2^e in units of 2 pi / Den
Angle(op) ==
    LET a == IF op.e <= 0 THEN 0 ELSE Pow2(PhaseBits - op.e) % Den
    IN IF op.sgn < 0 THEN (Den - a) % Den ELSE a

Classical(qb) == qb.m \in {"bit", "ctl"}

Turn(qb, a) == [qb EXCEPT !.v = (@ + a) % Den]

\* Hadamard
ApplyH(q, t) ==
    CASE q[t].m = "bit" -> {[q EXCEPT ![t] = [m |-> "phase", v |-> q[t].v * HalfTurn]]}
      [] q[t].m = "phase" /\ q[t].v = 0 -> {[q EXCEPT ![t] = [m |-> "bit", v |-> 0]]}
      [] q[t].m = "phase" /\ q[t].v = HalfTurn -> {[q EXCEPT ![t] = [m |-> "bit", v |-> 1]]}
      [] q[t].m = "phase" /\ q[t].v \notin {0, HalfTurn} ->
            {[q EXCEPT ![t] = [m |-> "ctl", v |-> b]] : b \in {0, 1}}
      [] OTHER -> {[q EXCEPT ![t] = [m |-> "mixed", v |-> 0]]}

\* phase gate: a rotation of the |1> component
ApplyP(q, t, a) ==
    IF q[t].m = "phase" THEN {[q EXCEPT ![t] = Turn(@, a)]} ELSE {q}

\* controlled phase gate: the rotation applies when both qubits are 1
ApplyCP(q, c, t, a) ==
    CASE a = 0 \/ c = t -> {q}
      [] Classical(q[c]) /\ q[t].m = "phase" -> {[q EXCEPT ![t] = Turn(@, q[c].v * a)]}
      [] q[c].m = "phase" /\ Classical(q[t]) -> {[q EXCEPT ![c] = Turn(@, q[t].v * a)]}
      [] q[c].m = "phase" /\ q[t].m = "phase" ->
            {[q EXCEPT ![c] = [m |-> "ctl", v |-> b], ![t] = Turn(@, b * a)] : b \in {0, 1}}
      [] q[c].m = "mixed" /\ q[t].m = "phase" -> {[q EXCEPT ![t] = [m |-> "mixed", v |-> 0]]}
      [] q[c].m = "phase" /\ q[t].m = "mixed" -> {[q EXCEPT ![c] = [m |-> "mixed", v |-> 0]]}
      [] OTHER -> {q}

ApplyOp(q, op) ==
    CASE op.g = "h" -> ApplyH(q, op.t)
      [] op.g = "p" -> ApplyP(q, op.t, Angle(op))
      [] op.g = "cp" -> ApplyCP(q, op.c, op.t, Angle(op))

\* every register state a list of operations can leave, from the states Q
RECURSIVE RunOps(_, _)
RunOps(Q, ops) ==
    IF ops = <<>> THEN Q
    ELSE RunOps(UNION {ApplyOp(q, Head(ops)) : q \in Q}, Tail(ops))

\* the bits a measurement of one qubit can give
MeasBits(qb) == IF Classical(qb) THEN {qb.v} ELSE {0, 1}

\* the values a measurement of a register can give, qubit 0 the lowest bit
RECURSIVE RegValues(_, _)
RegValues(qs, reg) ==
    IF reg = <<>> THEN {0}
    ELSE {b + 2 * v : b \in MeasBits(qs[Head(reg)]), v \in RegValues(qs, Tail(reg))}

Bit(value, i) == (value \div Pow2(i)) % 2

(***************************************************************************)
(* The program: a circuit over a target and a summand register is built,   *)
(* run gate by gate and measured.                                          *)
(***************************************************************************)
VARIABLES
    mode,     \* "main": the circuit of main; "test": one gate on a basis input;
              \* "compose": classical adders in sequence; "unit": one phase builder
    T, S,     \* lengths of target_reg and summand_reg
    x, s,     \* the values the registers are initialised to
    qc,       \* the circuit: the appended instructions, each a gate's name, its
              \* second build argument and its operations on the circuit's qubits
    applied,  \* every append made so far: gate, width, qubit list
    q,        \* the state of each qubit
    pc,       \* "build", "run", "done", "failed", "returned"
    ip,       \* the next instruction of qc to run
    call,     \* the last builder called and its arguments
    ret,      \* what that builder returned or raised
    meas      \* the measured values of the two registers

vars == <<mode, T, S, x, s, qc, applied, q, pc, ip, call, ret, meas>>

target_reg == QuantumRegister("target", T)
summand_reg == QuantumRegister("summand", S)
Qubits == {target_reg[p] : p \in 1..T} \cup {summand_reg[p] : p \in 1..S}

NoCall == [fn |-> "", a |-> 0, b |-> 0]
NoRet == Raise("none", 0)
NoMeas == [target |-> 0 - 1, summand |-> 0 - 1]

\* registers holding the basis states tv and sv
BasisState(t, n, tv, sv) ==
    [r \in {QuantumRegister("target", t)[p] : p \in 1..t}
           \cup {QuantumRegister("summand", n)[p] : p \in 1..n} |->
        [m |-> "bit", v |-> Bit(IF r.reg = "target" THEN tv ELSE sv, r.i)]]

Init ==
    /\ mode \in {"main", "test", "compose", "unit"}
    /\ T \in CASE mode = "main" -> {sol_bits}
               [] mode = "test" -> 1..MaxT
               [] mode = "compose" -> 1..MaxComposeT
               [] OTHER -> {1}
    /\ S \in CASE mode = "main" -> {sum_bits}
               [] mode = "test" -> 1..MaxS
               [] OTHER -> {1}
    /\ x \in (IF mode \in {"test", "compose"} THEN 0..(Pow2(T) - 1) ELSE {0})
    /\ s \in (IF mode = "test" THEN 0..(Pow2(S) - 1) ELSE {0})
    /\ qc = <<>>
    /\ applied = <<>>
    /\ q = BasisState(T, S, x, s)
    /\ pc = "build"
    /\ ip = 1
    /\ call = NoCall
    /\ ret = NoRet
    /\ meas = NoMeas

\* the outcome of a builder whose gate went into the circuit
Returned(gate) == [gate EXCEPT !.ops = <<>>, !.log = <<>>]

\* qc.append(gate, qargs) on the circuit and on the record of appends
AppendTo(circ, gate, arg, qargs) ==
    circ \o <<[name |-> gate.name, arg |-> arg, ops |-> Mapped(gate, qargs)]>>
LogOf(gate, qargs) == <<Applied(gate, qargs)>> \o gate.log

\* mutant: the adder applied to [summand..., target...]
MainQargsSwapped(treg, sreg) ==
    <<qubit_list(<<sreg, treg>>), qubit_list(<<treg>>), qubit_list(<<treg>>)>>

\* the qubit lists of main's three appends
MainQargs(treg, sreg) ==
    <<qubit_list(<<treg, sreg>>), qubit_list(<<treg>>), qubit_list(<<treg>>)>>

\* main: state preparation, the three gates, measure_all
main ==
    /\ mode = "main"
    /\ pc = "build"
    /\ LET prep == [name |-> "h", arg |-> 0, ops |-> <<OpH(summand_reg[1])>>]
           adder_gate == AdderGate(sol_bits, sum_bits)
           add_1_gate == ClassicalAdderGate(sol_bits, 1)
           add_2_gate == ClassicalAdderGate(sol_bits, 2)
           gates == <<adder_gate, add_1_gate, add_2_gate>>
           qargs == MainQargs(target_reg, summand_reg)
       IN /\ qc' = AppendTo(AppendTo(AppendTo(<<prep>>, gates[1], sum_bits, qargs[1]),
                                     gates[2], 1, qargs[2]), gates[3], 2, qargs[3])
          /\ applied' = LogOf(gates[1], qargs[1]) \o LogOf(gates[2], qargs[2])
                            \o LogOf(gates[3], qargs[3])
          /\ call' = [fn |-> "ClassicalAdderGate", a |-> sol_bits, b |-> 2]
          /\ ret' = Returned(add_2_gate)
    /\ pc' = "run"
    /\ UNCHANGED <<mode, T, S, x, s, q, ip, meas>>

\* a test circuit: qc.append(AdderGate(T, S), qubit_list(target_reg, summand_reg))
AppendAdderGate ==
    /\ mode = "test"
    /\ pc = "build"
    /\ qc = <<>>
    /\ LET gate == AdderGate(T, S)
           qargs == qubit_list(<<target_reg, summand_reg>>)
       IN /\ qc' = AppendTo(qc, gate, S, qargs)
          /\ applied' = applied \o LogOf(gate, qargs)
          /\ call' = [fn |-> "AdderGate", a |-> T, b |-> S]
          /\ ret' = Returned(gate)
    /\ UNCHANGED <<mode, T, S, x, s, q, pc, ip, meas>>

\* a test circuit: qc.append(ClassicalAdderGate(T, k), qubit_list(target_reg));
\* a builder that raises ends the program
AppendClassicalAdderGate ==
    /\ \/ mode = "test" /\ qc = <<>>
       \/ mode = "compose" /\ Len(qc) < MaxGates
    /\ pc = "build"
    /\ \E k \in MinK..Pow2(T) :
         LET gate == ClassicalAdderGate(T, k)
             qargs == qubit_list(<<target_reg>>)
         IN /\ call' = [fn |-> "ClassicalAdderGate", a |-> T, b |-> k]
            /\ ret' = Returned(gate)
            /\ IF gate.raised = "none"
               THEN /\ qc' = AppendTo(qc, gate, k, qargs)
                    /\ applied' = applied \o LogOf(gate, qargs)
                    /\ pc' = pc
               ELSE /\ pc' = "failed"
                    /\ UNCHANGED <<qc, applied>>
    /\ UNCHANGED <<mode, T, S, x, s, q, ip, meas>>

\* a phase builder called on its own
CallAdderPhaseGate ==
    /\ mode = "unit"
    /\ pc = "build"
    /\ \E a \in ArgLens, b \in 1..MaxS :
         /\ call' = [fn |-> "AdderPhaseGate", a |-> a, b |-> b]
         /\ ret' = AdderPhaseGate(a, b)
    /\ pc' = "returned"
    /\ UNCHANGED <<mode, T, S, x, s, qc, applied, q, ip, meas>>

CallClassicalAdderPhaseGate ==
    /\ mode = "unit"
    /\ pc = "build"
    /\ \E a \in ArgLens, k \in MinK..MaxK :
         /\ call' = [fn |-> "ClassicalAdderPhaseGate", a |-> a, b |-> k]
         /\ ret' = ClassicalAdderPhaseGate(a, k)
    /\ pc' = "returned"
    /\ UNCHANGED <<mode, T, S, x, s, qc, applied, q, ip, meas>>

\* the circuit is complete: hand it to the simulator
measure_all ==
    /\ mode \in {"test", "compose"}
    /\ pc = "build"
    /\ qc # <<>>
    /\ pc' = "run"
    /\ UNCHANGED <<mode, T, S, x, s, qc, applied, q, ip, call, ret, meas>>

\* the simulator runs the next instruction of the circuit
Simulate ==
    /\ pc = "run"
    /\ ip <= Len(qc)
    /\ q' \in RunOps({q}, qc[ip].ops)
    /\ ip' = ip + 1
    /\ UNCHANGED <<mode, T, S, x, s, qc, applied, pc, call, ret, meas>>

\* the final measurement of every qubit
Measure ==
    /\ pc = "run"
    /\ ip > Len(qc)
    /\ meas' \in [target : RegValues(q, target_reg),
                  summand : RegValues(q, summand_reg)]
    /\ pc' = "done"
    /\ UNCHANGED <<mode, T, S, x, s, qc, applied, q, ip, call, ret>>

Next ==
    \/ main
    \/ AppendAdderGate
    \/ AppendClassicalAdderGate
    \/ CallAdderPhaseGate
    \/ CallClassicalAdderPhaseGate
    \/ measure_all
    \/ Simulate
    \/ Measure

Spec == Init /\ [][Next]_vars

\* The register states the program reaches are represented exactly: no qubit
\* is ever "mixed", the only qubit branched on is the summand qubit that main
\* prepares with a Hadamard, and every angle is a whole number of units.
RepresentationIsExact ==
    /\ \A r \in Qubits : /\ q[r].m # "mixed"
                         /\ q[r].m = "ctl" => (mode = "main" /\ r = summand_reg[1])
    /\ \A p \in 1..Len(qc) : \A n \in 1..Len(qc[p].ops) : qc[p].ops[n].e <= PhaseBits

(***************************************************************************)
(* Properties                                                              *)
(***************************************************************************)
Ran(name) == pc = "done" /\ Len(qc) = 1 /\ qc[1].name = name

TargetIsBasis == \A p \in 1..T : q[target_reg[p]].m = "bit"

\* C1: a circuit that is one ClassicalAdderGate(T, k) with 0 <= k < 2^T, run
\* on a target register holding the basis state x, leaves the target in the
\* basis state (x + k) mod 2^T, and that is the value measured.
ClassicalAdderAdds ==
    (Ran("classical_adder") /\ qc[1].arg >= 0 /\ qc[1].arg < Pow2(T))
        => /\ TargetIsBasis
           /\ meas.target = (x + qc[1].arg) % Pow2(T)

ClassicalAdderWraps ==
    /\ Ran("classical_adder")
    /\ T = 3 /\ x = 5 /\ qc[1].arg = 6
    /\ meas.target = 3

\* C2: a circuit that is one AdderGate(T, S) on [target..., summand...], run
\* on basis states x and s, leaves the target in the basis state
\* (x + s) mod 2^T, for S < T, S = T and S > T alike.
AdderAdds ==
    Ran("adder") => /\ TargetIsBasis
                    /\ meas.target = (x + s) % Pow2(T)

AdderWrapsWiderSummand ==
    /\ Ran("adder")
    /\ T = 1 /\ S = 2 /\ x = 1 /\ s = 3
    /\ meas.target = 0

\* C3: AdderGate leaves the summand register alone: every operation of the
\* gate has a target qubit as its target, a summand qubit occurs only as the
\* control of a controlled rotation, the QFT and its inverse are applied to
\* the target register only, and the summand read after the gate is s.
AdderKeepsSummand ==
    (mode = "test" /\ qc # <<>> /\ qc[1].name = "adder")
        => /\ \A p \in 1..Len(qc[1].ops) :
                LET op == qc[1].ops[p]
                IN /\ op.t.reg = "target"
                   /\ op.c.reg = "summand" => op.g = "cp"
           /\ \A p \in 1..Len(applied) :
                applied[p].name \in {"qft", "iqft"}
                    => \A r \in 1..Len(applied[p].qargs) :
                          applied[p].qargs[r].reg = "target"
           /\ \A p \in 1..S : q[summand_reg[p]] = [m |-> "bit", v |-> Bit(s, p - 1)]
           /\ pc = "done" => meas.summand = s

AdderRanOnSummand ==
    /\ Ran("adder")
    /\ T = 2 /\ S = 2 /\ s = 3 /\ x = 2
    /\ meas = [target |-> 1, summand |-> 3]

\* the values the target can be measured at after ClassicalAdderGate(T, k)
\* alone has run on the basis state x
SingleAdderOutcomes(k) ==
    UNION {RegValues(qq, target_reg) :
             qq \in RunOps({BasisState(T, S, x, s)},
                           Mapped(ClassicalAdderGate(T, k), qubit_list(<<target_reg>>)))}

\* C4: ClassicalAdderGate(T, k1) followed by ClassicalAdderGate(T, k2) gives
\* on every basis input the result that ClassicalAdderGate(T, (k1+k2) mod 2^T)
\* alone gives, for all k1, k2 >= 0.
ComposedAddersAreOneAdder ==
    (mode = "compose" /\ pc = "done" /\ Len(qc) = 2)
        => SingleAdderOutcomes((qc[1].arg + qc[2].arg) % Pow2(T)) = {meas.target}

ComposedAddersWrap ==
    /\ mode = "compose" /\ pc = "done" /\ Len(qc) = 2
    /\ T = 2 /\ x = 3 /\ qc[1].arg = 3 /\ qc[2].arg = 4
    /\ meas.target = 2

\* C5: AdderPhaseGate and ClassicalAdderPhaseGate called with
\* target_reg_length <= 0 fail with an error and return no gate.
NonPositiveLengthRejected ==
    (pc = "returned" /\ call.a <= 0) => ret.raised # "none"

\* C6: for negative k and T >= 1 each classical builder raises before any
\* gate object has been constructed, and returns no gate.
NegativeConstantRejectedFirst ==
    (/\ pc \in {"returned", "failed"}
     /\ call.fn \in {"ClassicalAdderPhaseGate", "ClassicalAdderGate"}
     /\ call.a >= 1 /\ call.b < 0)
        => ret.raised # "none" /\ ret.built = 0

\* C7: the circuit of main measures summand 0 with target 3 or summand 1 with
\* target 4, and nothing else.
MainOutcomes ==
    (mode = "main" /\ pc = "done")
        => meas \in {[target |-> 3, summand |-> 0], [target |-> 4, summand |-> 1]}

MainMeasuresFour ==
    mode = "main" /\ pc = "done" /\ meas = [target |-> 4, summand |-> 1]

\* the width each gate of the program is built for
WidthOf(name) == IF name \in {"adder", "add_phase"} THEN T + S ELSE T

\* C8: every append of a built gate, inside AdderGate and ClassicalAdderGate
\* and in the circuit, passes as many qubits as the gate is wide, the target
\* register in index order followed, for the gates over both registers, by
\* the summand register in index order.
AppendsMatchWidthAndOrder ==
    \A p \in 1..Len(applied) :
        /\ applied[p].width = WidthOf(applied[p].name)
        /\ Len(applied[p].qargs) = applied[p].width
        /\ applied[p].qargs = IF applied[p].width = T + S
                              THEN target_reg \o summand_reg
                              ELSE target_reg

MainAppendsRecorded ==
    /\ mode = "main" /\ pc = "run"
    /\ Len(applied) = 12
    /\ applied[1].name = "adder" /\ applied[1].width = 5
    /\ applied[3].name = "add_phase" /\ Len(applied[3].qargs) = 5

\* the sum over i < a of min(i+1, b)
RECURSIVE RotationCount(_, _)
RotationCount(a, b) == IF a <= 0 THEN 0 ELSE Min(a, b) + RotationCount(a - 1, b)

\* the rotations AdderPhaseGate(a, b) is to emit, over the gate's positions
AdderPhasePairs(a, b) ==
    {OpCP(1 + i - j, a + j, i) : <<i, j>> \in
        {pr \in (0..(a - 1)) \X (0..(b - 1)) : pr[2] < Min(pr[1] + 1, b)}}

\* C9: AdderPhaseGate(T, S) emits exactly one controlled rotation by
\* 2 pi / 2^(1+i-j) with control summand[j] and target target[i] for each i < T
\* and j < min(i+1, S), none other, the sum over i of min(i+1, S) in all, with
\* every exponent 1+i-j at least 1.
AdderPhaseGateRotations ==
    (pc = "returned" /\ call.fn = "AdderPhaseGate" /\ call.a >= 1 /\ call.b >= 1)
        => /\ ret.raised = "none"
           /\ ret.n = call.a + call.b
           /\ {ret.ops[p] : p \in 1..Len(ret.ops)} = AdderPhasePairs(call.a, call.b)
           /\ Len(ret.ops) = RotationCount(call.a, call.b)
           /\ \A p \in 1..Len(ret.ops) : ret.ops[p].e >= 1

AdderPhaseGateTruncated ==
    /\ pc = "returned" /\ call = [fn |-> "AdderPhaseGate", a |-> 3, b |-> 2]
    /\ Len(ret.ops) = 5
    /\ ret.ops[5] = OpCP(2, 4, 2)

\* the rotations ClassicalAdderPhaseGate(a, k) is to emit
ClassicalPhasePairs(a, k) ==
    {OpP(1 + i - j, i) : <<i, j>> \in
        {pr \in (0..(a - 1)) \X (0..(a - 1)) : pr[2] <= pr[1] /\ Bit(k, pr[2]) = 1}}

\* C10: for k >= 0 the digits ClassicalAdderPhaseGate takes from bin(k) are
\* the bits of k, lowest first; it emits a rotation by 2 pi / 2^(1+i-j) of
\* target[i] exactly for j <= i < T with bit j of k set, and nothing else, so
\* what it emits for k is what it emits for k mod 2^T.
ClassicalPhaseGateRotations ==
    (/\ pc = "returned" /\ call.fn = "ClassicalAdderPhaseGate"
     /\ call.a >= 1 /\ call.b >= 0)
        => /\ ret.raised = "none"
           /\ \A j \in 0..PhaseBits :
                Bit(call.b, j) = IF j < Len(BitString(call.b))
                                 THEN int(BitString(call.b)[j + 1]) ELSE 0
           /\ {ret.ops[p] : p \in 1..Len(ret.ops)} = ClassicalPhasePairs(call.a, call.b)
           /\ Len(ret.ops) = Cardinality(ClassicalPhasePairs(call.a, call.b))
           /\ ret.ops = ClassicalAdderPhaseGate(call.a, call.b % Pow2(call.a)).ops

ClassicalPhaseGateDropsHighBit ==
    /\ pc = "returned"
    /\ call = [fn |-> "ClassicalAdderPhaseGate", a |-> 2, b |-> 6]
    /\ ret.ops = <<OpP(1, 1)>>

====
